---- MODULE Spec2Model ----
(***************************************************************************)
(* The card_deck package: the immutable Card value (a typing.NamedTuple),  *)
(* declared once in card_deck/deck.py (fields rank, suit; exported by the  *)
(* package) and once in card_deck/card.py (fields suit, rank), and the     *)
(* Deck container of card_deck/deck.py.                                    *)
(*                                                                         *)
(* Python objects have identity, so the model keeps two heaps: cardHeap    *)
(* (Card objects, by identity) and listHeap (list objects, by reference).  *)
(* A Deck holds a reference to its list; the caller's variables hold       *)
(* references to the lists Deck.cards returned and to the Card the caller  *)
(* built itself.  An object is named after the one that allocated it: the  *)
(* allocator's choice of address is immaterial, that it is new is not.     *)
(***************************************************************************)
EXTENDS Integers, Sequences, FiniteSets, TLC

\* Bounds of the exploration.
MaxDecks == 2
MaxMutations == 2

VARIABLES
    cardHeap,   \* Card identity -> [cls, tup]: the live Card objects
    listHeap,   \* list reference -> sequence of Card identities: the live lists
    decks,      \* the Deck objects: [_cards, i, j, built]
    held,       \* caller's list variable -> reference of the list it names, or NoRef
    adhoc,      \* caller's Card variable -> identity of the Card it names, or NoCard
    nmut,       \* number of list mutations performed by the caller
    last        \* the last call: its name, its inputs, what it returned or raised

vars == <<cardHeap, listHeap, decks, held, adhoc, nmut, last>>

----------------------------------------------------------------------------
(* Card                                                                    *)

\* The two declarations of Card: "deck" is card_deck/deck.py, "card" is
\* card_deck/card.py.
CardClasses == {"deck", "card"}

\* The fields of the NamedTuple, in declaration order.
Card_fields(cls) ==
    IF cls = "deck" THEN <<"rank", "suit">> ELSE <<"suit", "rank">>

FieldIndex(cls, name) ==
    CHOOSE k \in 1..Len(Card_fields(cls)) : Card_fields(cls)[k] = name

\* Card(*args, **kwargs): positional arguments fill the fields in declaration
\* order, keyword arguments fill them by name.  Nothing is validated.
Card__new__(cls, args, kwargs) ==
    [cls |-> cls,
     tup |-> [k \in 1..Len(Card_fields(cls)) |->
                 IF k <= Len(args) THEN args[k]
                 ELSE kwargs[Card_fields(cls)[k]]]]

\* c.rank, c.suit: the tuple element of that field.
Card_get(obj, name) == obj.tup[FieldIndex(obj.cls, name)]

\* A NamedTuple without __setattr__ of its own (card.py): the field
\* descriptors have no setter and the class has empty __slots__, so every
\* assignment raises AttributeError.
NamedTuple__setattr__(obj, name, value) ==
    [obj |-> obj, err |-> "AttributeError"]

\* Variant: a __setattr__ that stores the fields it is given.
Card__setattr__Set(obj, name, value) ==
    IF name \in {"rank", "suit"}
    THEN [obj |-> [obj EXCEPT !.tup[FieldIndex(obj.cls, name)] = value],
          err |-> "none"]
    ELSE [obj |-> obj, err |-> "AttributeError"]

\* deck.py Card.__setattr__: raises for every name.
Card__setattr__(obj, name, value) ==
    [obj |-> obj, err |-> "AttributeError"]

setattr(obj, name, value) ==
    IF obj.cls = "deck" THEN Card__setattr__(obj, name, value)
    ELSE NamedTuple__setattr__(obj, name, value)

\* del c.name: neither class defines __delattr__; a field descriptor has no
\* deleter and any other name is not an attribute of the object.
delattr(obj, name) ==
    [obj |-> obj, err |-> "AttributeError"]

\* Variant: an equality that compares the first field only.
Card__eq__FirstOnly(x, y) == x.tup[1] = y.tup[1]

\* x == y: the tuple comparison NamedTuple inherits; the class is not compared.
Card__eq__(x, y) == x.tup = y.tup

\* The identity of a newly allocated Card: the n-th Card allocated by owner
\* (a Deck's index, or 0 for the caller).
NewCardId(owner, n) == <<owner, n>>

NoCard == <<0, 0>>

----------------------------------------------------------------------------
(* Deck                                                                    *)

\* Variant: a suit list that names Hearts twice.
suitsDup == <<"Spades", "Hearts", "Hearts", "Clubs">>

suits == <<"Spades", "Hearts", "Diamonds", "Clubs">>

\* Variant: a rank list without the 10.
ranksShort == <<"A", "2", "3", "4", "5", "6", "7", "8", "9", "J", "Q", "K">>

ranks == <<"A", "2", "3", "4", "5", "6", "7", "8", "9", "10", "J", "Q", "K">>

Mem == [cardHeap |-> cardHeap, listHeap |-> listHeap, decks |-> decks]

\* Variant: an __init__(self, **kwargs), which rejects positional arguments only.
Deck_arityPositional(nargs, nkwargs) ==
    IF nargs = 0 THEN "none" ELSE "TypeError"

\* Deck(*args, **kwargs): __init__(self) takes no argument besides self.
Deck_arity(nargs, nkwargs) ==
    IF nargs + nkwargs = 0 THEN "none" ELSE "TypeError"

NoRef == <<"none", 0>>

\* Variant: _cards as a class attribute, one list shared by every Deck.
Deck__init__BeginShared(st) ==
    LET ref == <<"deck", 1>>
    IN [st EXCEPT
           !.listHeap = IF ref \in DOMAIN @ THEN @ ELSE (ref :> <<>>) @@ @,
           !.decks = Append(@, [_cards |-> ref, i |-> 1, j |-> 1, built |-> FALSE])]

\* self._cards = []: a new, empty list object owned by the new Deck.
Deck__init__Begin(st) ==
    LET d == Len(st.decks) + 1
        ref == <<"deck", d>>
    IN [st EXCEPT
           !.listHeap = (ref :> <<>>) @@ @,
           !.decks = Append(@, [_cards |-> ref, i |-> 1, j |-> 1, built |-> FALSE])]

\* The loops of __init__ are not over yet.
InLoop(dk) == dk.i <= Len(suits)

\* The loop iteration, appending the Card of the given rank and suit indices.
StepWith(st, d, rankIdx, suitIdx) ==
    LET dk == st.decks[d]
        id == NewCardId(d, (dk.i - 1) * Len(ranks) + dk.j)
        c  == Card__new__("deck", <<ranks[rankIdx], suits[suitIdx]>>, <<>>)
        lastRank == dk.j = Len(ranks)
    IN [st EXCEPT
           !.cardHeap = (id :> c) @@ @,
           !.listHeap[dk._cards] = Append(@, id),
           !.decks[d].i = IF lastRank THEN dk.i + 1 ELSE dk.i,
           !.decks[d].j = IF lastRank THEN 1 ELSE dk.j + 1]

\* Variant: the two loops nested the other way round (rank-major).
Deck__init__StepRankMajor(st, d) ==
    LET n == (st.decks[d].i - 1) * Len(ranks) + st.decks[d].j - 1
    IN StepWith(st, d, (n \div Len(suits)) + 1, (n % Len(suits)) + 1)

\* Variant: a module-level suit list that each construction rotates by one.
Deck__init__StepGlobal(st, d) ==
    StepWith(st, d, st.decks[d].j, ((st.decks[d].i + d - 2) % Len(suits)) + 1)

\* One iteration of the inner loop: self._cards.append(Card(rank, suit)).
Deck__init__Step(st, d) ==
    LET dk == st.decks[d]
        id == NewCardId(d, (dk.i - 1) * Len(ranks) + dk.j)
        c  == Card__new__("deck", <<ranks[dk.j], suits[dk.i]>>, <<>>)
        lastRank == dk.j = Len(ranks)
    IN [st EXCEPT
           !.cardHeap = (id :> c) @@ @,
           !.listHeap[dk._cards] = Append(@, id),
           !.decks[d].i = IF lastRank THEN dk.i + 1 ELSE dk.i,
           !.decks[d].j = IF lastRank THEN 1 ELSE dk.j + 1]

\* __init__ returns: the caller receives the Deck.
Deck__init__Return(st, d) == [st EXCEPT !.decks[d].built = TRUE]

\* __init__ from its first iteration to its return, without interruption.
RECURSIVE Deck__init__Run(_, _)
Deck__init__Run(st, d) ==
    IF InLoop(st.decks[d]) THEN Deck__init__Run(Deck__init__Step(st, d), d)
    ELSE Deck__init__Return(st, d)

\* Variant: cards returning self._cards itself.
Deck_cardsAlias(st, d, v) ==
    [listHeap |-> st.listHeap, ref |-> st.decks[d]._cards]

\* Deck.cards, assigned to the caller's variable v: self._cards[:], a new
\* list object with the same elements.
Deck_cards(st, d, v) ==
    LET ref == <<"var", v>>
    IN [listHeap |-> (ref :> st.listHeap[st.decks[d]._cards]) @@ st.listHeap,
        ref |-> ref]

\* len(deck)
Deck__len__(st, d) == Len(st.listHeap[st.decks[d]._cards])

RECURSIVE IntStr(_)
\* The decimal digits of a natural number, as the f-string formats it.
IntStr(n) ==
    LET digit == <<"0", "1", "2", "3", "4", "5", "6", "7", "8", "9">>[(n % 10) + 1]
    IN IF n < 10 THEN <<digit>> ELSE IntStr(n \div 10) \o <<digit>>

\* Variant: a wording without the count, "Deck of cards".
Deck__str__NoCount(st, d) ==
    <<"D", "e", "c", "k", " ", "o", "f", " ", "c", "a", "r", "d", "s">>

\* str(deck): f"Deck with {len(self._cards)} cards", as a sequence of characters.
Deck__str__(st, d) ==
    <<"D", "e", "c", "k", " ", "w", "i", "t", "h", " ">>
    \o IntStr(Len(st.listHeap[st.decks[d]._cards]))
    \o <<" ", "c", "a", "r", "d", "s">>

Built == {d \in 1..Len(decks) : decks[d].built}

----------------------------------------------------------------------------
(* The caller                                                              *)

\* The caller's list variables and Card variables, the threads that
\* construct Decks, and the caller's inputs: rank and suit strings in and
\* out of the vocabularies, attribute names, the value it tries to assign,
\* and the list positions it reads (cards[0], cards[13]).
ListVars == {1, 2}

CardVars == {1, 2}

Threads == {"t1", "t2"}

RankInputs == {"A", "Zebra"}

SuitInputs == {"Spades", "A"}

AttrNames == {"rank", "suit", "value"}

AttrValues == {"X"}

Positions == {1, 14}

HeldVars == {v \in ListVars : held[v] # NoRef}

\* The Cards the caller has a reference to.
Reach ==
    {adhoc[k] : k \in {c \in CardVars : adhoc[c] # NoCard}}
    \cup UNION {{listHeap[held[v]][p] : p \in Positions \cap 1..Len(listHeap[held[v]])} :
                 v \in HeldVars}

\* lst.pop()
list_pop(lst) ==
    IF Len(lst) = 0 THEN [lst |-> lst, err |-> "IndexError"]
    ELSE [lst |-> SubSeq(lst, 1, Len(lst) - 1), err |-> "none"]

\* lst.append(x)
list_append(lst, x) == [lst |-> Append(lst, x), err |-> "none"]

\* lst.reverse()
list_reverse(lst) ==
    [lst |-> [k \in 1..Len(lst) |-> lst[Len(lst) + 1 - k]], err |-> "none"]

----------------------------------------------------------------------------
Init ==
    /\ cardHeap = <<>>
    /\ listHeap = <<>>
    /\ decks = <<>>
    /\ held = [v \in ListVars |-> NoRef]
    /\ adhoc = [k \in CardVars |-> NoCard]
    /\ nmut = 0
    /\ last = [op |-> "start", err |-> "none"]

SetMem(st) ==
    /\ cardHeap' = st.cardHeap
    /\ listHeap' = st.listHeap
    /\ decks' = st.decks

\* deck = Deck(...)
DeckCall(nargs, nkwargs) ==
    /\ Len(decks) < MaxDecks
    /\ LET e == Deck_arity(nargs, nkwargs)
       IN /\ last' = [op |-> "Deck", err |-> e, nargs |-> nargs,
                      nkwargs |-> nkwargs, ndecks |-> Len(decks)]
          /\ IF e = "none"
             THEN SetMem(Deck__init__Run(Deck__init__Begin(Mem), Len(decks) + 1))
             ELSE UNCHANGED <<cardHeap, listHeap, decks>>
    /\ UNCHANGED <<held, adhoc, nmut>>

\* v = deck.cards
GetCards(d, v) ==
    /\ LET r == Deck_cards(Mem, d, v)
       IN /\ listHeap' = r.listHeap
          /\ held' = [held EXCEPT ![v] = r.ref]
          /\ last' = [op |-> "cards", err |-> "none", v |-> v]
    /\ UNCHANGED <<cardHeap, decks, adhoc, nmut>>

\* len(deck)
LenCall(d) ==
    /\ last' = [op |-> "len", err |-> "none", val |-> Deck__len__(Mem, d)]
    /\ UNCHANGED <<cardHeap, listHeap, decks, held, adhoc, nmut>>

\* str(deck)
StrCall(d) ==
    /\ last' = [op |-> "str", err |-> "none", val |-> Deck__str__(Mem, d)]
    /\ UNCHANGED <<cardHeap, listHeap, decks, held, adhoc, nmut>>

\* The caller mutates the list its variable v names.
MutateList(v, r, name) ==
    /\ nmut < MaxMutations
    /\ nmut' = nmut + 1
    /\ listHeap' = [listHeap EXCEPT ![held[v]] = r.lst]
    /\ last' = [op |-> name, err |-> r.err, v |-> v]
    /\ UNCHANGED <<cardHeap, decks, held, adhoc>>

\* v.pop()
PopCall(v) == MutateList(v, list_pop(listHeap[held[v]]), "pop")

\* v.append(v[0])
AppendCall(v) ==
    /\ Len(listHeap[held[v]]) > 0
    /\ MutateList(v, list_append(listHeap[held[v]], listHeap[held[v]][1]), "append")

\* v.reverse()
ReverseCall(v) == MutateList(v, list_reverse(listHeap[held[v]]), "reverse")

\* k = Card(r, s) or k = Card(rank=r, suit=s), of either class.
CardCall(k, cls, mode, r, s) ==
    /\ LET id == NewCardId(0, k)
           c == IF mode = "positional"
                THEN Card__new__(cls, <<r, s>>, <<>>)
                ELSE Card__new__(cls, <<>>, [rank |-> r, suit |-> s])
       IN /\ cardHeap' = (id :> c) @@ cardHeap
          /\ adhoc' = [adhoc EXCEPT ![k] = id]
          /\ last' = [op |-> "Card", err |-> "none", cls |-> cls, mode |-> mode,
                      r |-> r, s |-> s, k |-> k]
    /\ UNCHANGED <<listHeap, decks, held, nmut>>

\* c.name = value, setattr(c, name, value)
SetAttr(x, name, value) ==
    /\ LET r == setattr(cardHeap[x], name, value)
       IN /\ cardHeap' = [cardHeap EXCEPT ![x] = r.obj]
          /\ last' = [op |-> "setattr", err |-> r.err, name |-> name,
                      cls |-> cardHeap[x].cls]
    /\ UNCHANGED <<listHeap, decks, held, adhoc, nmut>>

\* del c.name
DelAttr(x, name) ==
    /\ LET r == delattr(cardHeap[x], name)
       IN /\ cardHeap' = [cardHeap EXCEPT ![x] = r.obj]
          /\ last' = [op |-> "delattr", err |-> r.err, name |-> name,
                      cls |-> cardHeap[x].cls]
    /\ UNCHANGED <<listHeap, decks, held, adhoc, nmut>>

\* A thread enters Deck(): self._cards = [].
ThreadBegin ==
    /\ Len(decks) < MaxDecks
    /\ Cardinality({d \in 1..Len(decks) : ~decks[d].built}) < Cardinality(Threads)
    /\ SetMem(Deck__init__Begin(Mem))
    /\ UNCHANGED <<held, adhoc, nmut, last>>

\* The thread constructing Deck d runs one iteration of the loop.
ThreadStep(d) ==
    /\ ~decks[d].built
    /\ InLoop(decks[d])
    /\ SetMem(Deck__init__Step(Mem, d))
    /\ UNCHANGED <<held, adhoc, nmut, last>>

\* The loop of Deck d is over: Deck() returns it.
ThreadReturn(d) ==
    /\ ~decks[d].built
    /\ ~InLoop(decks[d])
    /\ SetMem(Deck__init__Return(Mem, d))
    /\ last' = [op |-> "Deck", err |-> "none", nargs |-> 0, nkwargs |-> 0,
                ndecks |-> d - 1]
    /\ UNCHANGED <<held, adhoc, nmut>>

\* The single-threaded caller of Deck.
Next ==
    \/ \E nargs \in 0..2, nkwargs \in 0..1 : DeckCall(nargs, nkwargs)
    \/ \E d \in Built, v \in ListVars : GetCards(d, v)
    \/ \E d \in Built : LenCall(d)
    \/ \E d \in Built : StrCall(d)
    \/ \E v \in HeldVars : PopCall(v)
    \/ \E v \in HeldVars : AppendCall(v)
    \/ \E v \in HeldVars : ReverseCall(v)
    \/ \E x \in Reach, name \in AttrNames, value \in AttrValues : SetAttr(x, name, value)
    \/ \E x \in Reach, name \in {"rank", "suit"} : DelAttr(x, name)

Spec == Init /\ [][Next]_vars

\* The caller of Card: it constructs Cards of either class, reads the Cards
\* of Decks, and attempts to mutate them.
NextCard ==
    \/ DeckCall(0, 0)
    \/ \E d \in Built : GetCards(d, 1)
    \/ \E k \in CardVars, cls \in CardClasses, mode \in {"positional", "keyword"},
          r \in RankInputs, s \in SuitInputs : CardCall(k, cls, mode, r, s)
    \/ \E x \in Reach, name \in AttrNames, value \in AttrValues : SetAttr(x, name, value)
    \/ \E x \in Reach, name \in {"rank", "suit"} : DelAttr(x, name)

SpecCard == Init /\ [][NextCard]_vars

\* Several threads construct Decks, one loop iteration at a time, while
\* the Decks already returned are read.
NextThreads ==
    \/ ThreadBegin
    \/ \E d \in 1..Len(decks) : ThreadStep(d)
    \/ \E d \in 1..Len(decks) : ThreadReturn(d)
    \/ \E d \in Built : GetCards(d, 1)
    \/ \E d \in Built : LenCall(d)

SpecThreads == Init /\ [][NextThreads]_vars

----------------------------------------------------------------------------
(* Properties                                                              *)

\* The fixed vocabularies and orders the specification names.
SuitOrder == <<"Spades", "Hearts", "Diamonds", "Clubs">>

RankOrder == <<"A", "2", "3", "4", "5", "6", "7", "8", "9", "10", "J", "Q", "K">>

SuitSet == {SuitOrder[k] : k \in DOMAIN SuitOrder}

RankSet == {RankOrder[k] : k \in DOMAIN RankOrder}

PairOf(x) == <<Card_get(cardHeap[x], "rank"), Card_get(cardHeap[x], "suit")>>

\* The (rank, suit) pairs of the Deck's internal sequence, in order.
InternalPairs(d) ==
    [p \in DOMAIN listHeap[decks[d]._cards] |-> PairOf(listHeap[decks[d]._cards][p])]

\* What a call of deck.cards returns now: the identities, in order.
CardsOf(d) == LET r == Deck_cards(Mem, d, 1) IN r.listHeap[r.ref]

DeckRefs == {decks[d]._cards : d \in 1..Len(decks)}

\* C1: in every reachable state, the internal sequence of every constructed
\* Deck contains every (rank, suit) pair of the 13 ranks and 4 suits exactly
\* once: 13 cards per suit, 4 cards per rank, no duplicate pair.
C1_EveryPairExactlyOnce ==
    \A d \in Built :
        LET P == InternalPairs(d)
            S == {P[p] : p \in DOMAIN P}
        IN /\ S = RankSet \X SuitSet
           /\ Cardinality(S) = Len(P)
           /\ \A s \in SuitSet : Cardinality({p \in DOMAIN P : P[p][2] = s}) = 13
           /\ \A r \in RankSet : Cardinality({p \in DOMAIN P : P[p][1] = r}) = 4

\* A Deck after the caller mutated copies of it and failed to mutate a Card.
C1_Witness ==
    /\ Built # {}
    /\ nmut >= 2
    /\ HeldVars = ListVars
    /\ last.op = "setattr"
    /\ last.err = "AttributeError"

\* C2: a mutation of a list that Deck.cards returned changes neither the
\* internal sequence (nor the length) of any Deck nor the list any other
\* variable holds, and every call of Deck.cards returns a list object that
\* is neither a Deck's own list nor a list another variable holds, leaving
\* every Deck and every other list as they were.
C2_CopiesAreIndependent ==
    [][/\ (nmut' # nmut) =>
            /\ \A d \in Built :
                  /\ listHeap'[decks'[d]._cards] = listHeap[decks[d]._cards]
                  /\ Len(listHeap'[decks'[d]._cards]) = Len(listHeap[decks[d]._cards])
            /\ \A w \in HeldVars \ {last'.v} : listHeap'[held'[w]] = listHeap[held[w]]
       /\ (last'.op = "cards") =>
            /\ held'[last'.v] \notin DeckRefs \cup {held[w] : w \in ListVars \ {last'.v}}
            /\ \A d \in Built : listHeap'[decks'[d]._cards] = listHeap[decks[d]._cards]
            /\ \A w \in HeldVars \ {last'.v} : listHeap'[held'[w]] = listHeap[held[w]]
            /\ \E d \in Built : listHeap'[held'[last'.v]] = listHeap[decks[d]._cards]
      ]_vars

\* Two copies are held, both were mutated (one popped, then appended to).
C2_Witness ==
    /\ HeldVars = ListVars
    /\ nmut >= 2
    /\ last.op = "append"
    /\ Len(listHeap[held[1]]) # Len(listHeap[held[2]])
    /\ \A d \in Built : Len(listHeap[decks[d]._cards]) = 52

\* C3: every attempt to assign an attribute of a Card (rank, suit or a new
\* name) or to delete rank or suit raises AttributeError and leaves every
\* Card as it was.
C3_MutationAttemptsFail ==
    [][(last'.op \in {"setattr", "delattr"}) =>
            /\ last'.err = "AttributeError"
            /\ cardHeap' = cardHeap
      ]_vars

\* A new attribute was assigned on a Card of card.py, which has no
\* __setattr__ of its own, while a Card of a Deck is in reach too.
C3_Witness ==
    /\ last.op = "setattr"
    /\ last.name = "value"
    /\ last.cls = "card"
    /\ last.err = "AttributeError"
    /\ \E x \in Reach : cardHeap[x].cls = "deck"

\* C4: Deck.cards lists the cards suit-major: for the i-th suit of (Spades,
\* Hearts, Diamonds, Clubs) and the j-th rank of (A, 2, ..., 10, J, Q, K),
\* counted from 0, position 13*i + j holds Card(rank j, suit i); position 0
\* is A of Spades, 12 is K of Spades, 13 is A of Hearts, the last is K of
\* Clubs.
C4_SuitMajorOrder ==
    \A d \in Built :
        LET L == CardsOf(d)
        IN /\ Len(L) = 52
           /\ \A i \in 1..4, j \in 1..13 :
                 LET c == cardHeap[L[13 * (i - 1) + j]]
                 IN /\ Card__eq__(c, Card__new__("deck", <<RankOrder[j], SuitOrder[i]>>, <<>>))
                    /\ Card_get(c, "rank") = RankOrder[j]
                    /\ Card_get(c, "suit") = SuitOrder[i]
           /\ PairOf(L[1]) = <<"A", "Spades">>
           /\ PairOf(L[13]) = <<"K", "Spades">>
           /\ PairOf(L[14]) = <<"A", "Hearts">>
           /\ PairOf(L[Len(L)]) = <<"K", "Clubs">>

\* The caller read deck.cards of the second Deck after reordering a copy.
C4_Witness ==
    /\ last.op = "cards"
    /\ Cardinality(Built) >= 2
    /\ nmut >= 1

\* C5: len(deck) is 52 for every Deck that construction returned, in every
\* reachable state: the caller never has a partially built Deck, and no
\* operation changes the count.
C5_LenIsAlways52 ==
    /\ \A d \in Built : Deck__len__(Mem, d) = 52
    /\ (last.op = "len") => (last.val = 52)

\* len(deck) was called after copies of the Deck were mutated.
C5_Witness ==
    /\ last.op = "len"
    /\ nmut >= 2

\* C6: Deck(...) with any positional or keyword argument raises TypeError
\* and yields no Deck; Deck() succeeds and yields a built Deck.
C6_ArityError ==
    (last.op = "Deck") =>
        IF last.nargs + last.nkwargs > 0
        THEN last.err = "TypeError" /\ Len(decks) = last.ndecks
        ELSE /\ last.err = "none"
             /\ Len(decks) = last.ndecks + 1
             /\ decks[Len(decks)].built

\* Deck(x=...) was called with one keyword argument and nothing else.
C6_Witness ==
    /\ last.op = "Deck"
    /\ last.nargs = 0
    /\ last.nkwargs = 1
    /\ last.err = "TypeError"

C8_Deterministic ==
    \A d1 \in Built, d2 \in Built :
        (d1 < d2) =>
            LET L1 == CardsOf(d1)
                L2 == CardsOf(d2)
            IN /\ Len(L1) = Len(L2)
               /\ \A p \in 1..Len(L1) :
                     /\ Card__eq__(cardHeap[L1[p]], cardHeap[L2[p]])
                     /\ PairOf(L1[p]) = PairOf(L2[p])
               /\ {PairOf(L1[p]) : p \in 1..Len(L1)} = {PairOf(L2[p]) : p \in 1..Len(L2)}

\* A second Deck was constructed after a copy of the first was mutated.
C8_Witness ==
    /\ Cardinality(Built) >= 2
    /\ last.op = "Deck"
    /\ last.err = "none"
    /\ nmut >= 1

\* C9: under every interleaving of the construction steps of several Decks
\* and of reads of the Decks already returned, each Deck has a list of its
\* own that holds exactly the cards its own construction appended so far,
\* in order, and a returned Deck holds the complete 52-card sequence.
C9_DecksAreIndependent ==
    /\ \A d1 \in 1..Len(decks), d2 \in 1..Len(decks) :
          (d1 # d2) => (decks[d1]._cards # decks[d2]._cards)
    /\ \A d \in 1..Len(decks) :
          LET P == InternalPairs(d)
              n == IF decks[d].i > 4 THEN 52 ELSE 13 * (decks[d].i - 1) + decks[d].j - 1
          IN /\ Len(P) = n
             /\ \A p \in 1..Len(P) :
                   P[p] = <<RankOrder[((p - 1) % 13) + 1], SuitOrder[((p - 1) \div 13) + 1]>>
             /\ decks[d].built => (Len(P) = 52)

\* One Deck was returned and read while another is half constructed.
C9_Witness ==
    /\ \E d \in Built : last.op = "cards" /\ Len(listHeap[held[1]]) = 52
    /\ \E d \in 1..Len(decks) :
          /\ ~decks[d].built
          /\ Len(listHeap[decks[d]._cards]) = 26

\* sub in s, for two strings given as sequences of characters.
Contains(s, sub) ==
    \E p \in 1..(Len(s) - Len(sub) + 1) : SubSeq(s, p, p + Len(sub) - 1) = sub

\* C11: for every constructed Deck, str(deck) contains the decimal digits of
\* the count len(deck) returns, and these are "52"; every str call returned
\* such a string, also after the caller mutated copies of the Deck's cards.
C11_StrMentionsCount ==
    /\ \A d \in Built :
          /\ Contains(Deck__str__(Mem, d), IntStr(Deck__len__(Mem, d)))
          /\ Contains(Deck__str__(Mem, d), <<"5", "2">>)
    /\ (last.op = "str") =>
          /\ last.err = "none"
          /\ Contains(last.val, <<"5", "2">>)

\* str(deck) was called after a copy of the Deck's cards was mutated.
C11_Witness ==
    /\ last.op = "str"
    /\ nmut >= 1

\* C10: Card(r, s), called positionally with any two strings, yields a Card
\* c with c.rank = r and c.suit = s.
C10_CardHoldsRankAndSuit ==
    (last.op = "Card" /\ last.mode = "positional") =>
        /\ last.err = "none"
        /\ Card_get(cardHeap[adhoc[last.k]], "rank") = last.r
        /\ Card_get(cardHeap[adhoc[last.k]], "suit") = last.s
====
